---- MODULE Spec2Model ----
(***************************************************************************)
(* FeishuPlugin (src/plugins/feishumsg/__init__.py): the access-token      *)
(* cache, the pooled session and the message send, as used by host threads *)
(* that call _get_access_token, post_message and the lifecycle hooks.      *)
(*                                                                         *)
(* A thread's position is the source line it is about to execute.  The     *)
(* plugin holds no lock, so steps of different threads interleave freely.  *)
(* Tokens issued by the token endpoint are numbered 1, 2, ... in the order *)
(* of issue; None and the empty string are the two falsy token values.     *)
(***************************************************************************)
EXTENDS Integers, Sequences, FiniteSets, TLC

VARIABLES plugin_config, session, access_token, token_expiry, now, th,
          lifecycle, pools, issued, issuedAt, invalidAt, events, tp

vars == <<plugin_config, session, access_token, token_expiry, now, th,
          lifecycle, pools, issued, issuedAt, invalidAt, events, tp>>

(* plugin_config  the class's configuration dict (lines 22-27)              *)
(* session        self._session: 0 is None, n > 0 the n-th pooled session  *)
(* access_token   self._access_token (line 32)                             *)
(* token_expiry   self._token_expiry (line 33)                             *)
(* now            time.time(), in whole seconds                            *)
(* th             per thread: position, locals and history of its call     *)
(* lifecycle      "new" after __init__, "running" after init_plugin,       *)
(*                "stopped" after stop                                     *)
(* pools          pooled sessions created so far by _init_session          *)
(* issued         tokens issued so far by the token endpoint               *)
(* issuedAt       the time at which the cached token was stored (line 86)  *)
(* invalidAt      the value of issued when the credentials last changed or *)
(*                stop last ran: tokens up to it were issued before that   *)
(* events         calls, lifecycle hooks and clock steps so far            *)
(* tp             the session.post under way in the transport: the       *)
(*                outcomes of its attempts and the retries left           *)

-----------------------------------------------------------------------------
(* Bounds of the model *)

(* Calls into the plugin, lifecycle hooks and clock steps in one run *)
MaxEvents == 4

(* Host threads that may be inside the plugin at the same time *)
Threads == {1, 2}

-----------------------------------------------------------------------------
(* Values *)

None == -1

EmptyStr == 0

TokenTTL == 5400

TickSteps == {1, TokenTTL - 1}

Truthy(tok) == tok > 0

DefaultConfig ==
  [enabled |-> TRUE, feishu_app_id |-> "A", feishu_app_secret |-> "S",
   use_long_connection |-> TRUE]

(* Configurations the host passes to init_plugin and update_config *)
ConfigInputs ==
  { [k \in {} |-> ""],
    [feishu_app_id |-> "B"],
    [feishu_app_id |-> ""],
    [feishu_app_secret |-> ""],
    [use_long_connection |-> FALSE] }

(* dict.update *)
DictUpdate(d, c) ==
  [k \in DOMAIN d \cup DOMAIN c |-> IF k \in DOMAIN c THEN c[k] ELSE d[k]]

(* Requests passed to post_message: channel, title, text, buttons *)
Requests ==
  { [channel |-> "oc_1", title |-> "Hi", text |-> "",
     buttons |-> << << [text |-> "A", callback_data |-> "a", primary |-> TRUE] >> >>],
    [channel |-> "oc_2", title |-> "T", text |-> "body",
     buttons |-> << << [text |-> "M", callback_data |-> "media", primary |-> TRUE],
                       [text |-> "S", callback_data |-> "search"] >>,
                    << [text |-> "C", callback_data |-> "settings", primary |-> FALSE] >> >>],
    [channel |-> "oc_3", title |-> "N", text |-> "note", buttons |-> << >>] }

NoRequest == [channel |-> "", title |-> "", text |-> "", buttons |-> << >>]

(* event_data of the PluginAction events the host delivers to              *)
(* handle_command: the menu command with channel and user, with an empty   *)
(* channel, without channel, without any target, and another action.       *)
Events ==
  { [action |-> "send_feishu_menu", channel |-> "oc_1", user |-> "u_1"],
    [action |-> "send_feishu_menu", channel |-> "", user |-> "u_1"],
    [action |-> "send_feishu_menu", user |-> "u_2"],
    [action |-> "send_feishu_menu"],
    [action |-> "other", channel |-> "oc_1"] }

NoEvent == [k \in {} |-> ""]

(* The configurations the host passes when the enabled switch is toggled *)
CmdConfigInputs == { [enabled |-> FALSE], [enabled |-> TRUE] }

(* Answers of the token endpoint: code 0 with a token, code 0 with an empty  *)
(* token, code 0 without the token field, a non-zero code, and a transport *)
(* failure (timeout, connection error, a body that is not JSON).           *)
TokenResponses == {"ok", "empty", "nokey", "err", "exc"}

(* Answers of the message endpoint *)
MessageResponses == {"ok", "err", "exc"}

(* line 57: Retry(total=3, ...) *)
RetryTotal == 3

(* StatusForcelist with 429 (too many requests) added *)
StatusForcelist_With429 == {429, 500, 502, 503, 504}

(* line 57: status_forcelist *)
StatusForcelist == {500, 502, 503, 504}

(* An attempt that got no response: connection refused or reset, timeout *)
ConnFailure == 0

(* What one attempt of a POST can end in: no response, or a status *)
Outcomes == {ConnFailure, 200, 400, 429} \cup StatusForcelist

(* Configurations of the long-connection switch *)
RetryConfigInputs == { [k \in {} |-> ""], [use_long_connection |-> FALSE] }

-----------------------------------------------------------------------------
(* Pure parts of the code *)

(* CacheValid with the comparison turned round: a fresh token is refetched *)
CacheValid_Inverted(tok, expiry, t) == Truthy(tok) /\ t > expiry

(* CacheValid off by one: the token is still used at its expiry instant *)
CacheValid_Inclusive(tok, expiry, t) == Truthy(tok) /\ t <= expiry

(* line 70: self._access_token and time.time() < self._token_expiry *)
CacheValid(tok, expiry, t) == Truthy(tok) /\ t < expiry

(* CredsMissing that forgets the secret *)
CredsMissing_IdOnly(app_id, app_secret) == app_id = ""

(* line 75: not app_id or not app_secret *)
CredsMissing(app_id, app_secret) == app_id = "" \/ app_secret = ""

(* PickSession that never uses the pooled session *)
PickSession_OneShot(s) == 0

(* lines 81 and 120: self._session or requests.Session(); 0 is a one-shot session *)
PickSession(s) == IF s # 0 THEN s ELSE 0

(* lines 57-64, 81 and 120: the retries a session allows: the pooled        *)
(* session carries the adapter with the Retry policy, a one-shot           *)
(* requests.Session() has none                                             *)
RetriesOf(s) == IF s # 0 THEN RetryTotal ELSE 0

(* The outcomes after which the Retry policy allows another attempt *)
Retryable(o) == o = ConnFailure \/ o \in StatusForcelist

(* What session.post hands to its caller after the last attempt *)
SendResult(o) == IF o = ConnFailure THEN "TransportError" ELSE "response"

(* TokenResult without the test of the answer's code *)
TokenResult_IgnoresCode(kind) ==
  CASE kind = "ok" -> "cache"
    [] kind = "empty" -> "cache"
    [] kind = "nokey" -> "none"
    [] kind = "err" -> "cache"
    [] kind = "exc" -> "none"

(* TokenResult without the except clause *)
TokenResult_Propagates(kind) ==
  CASE kind = "ok" -> "cache"
    [] kind = "empty" -> "cache"
    [] kind = "nokey" -> "raise"
    [] kind = "err" -> "none"
    [] kind = "exc" -> "raise"

(* lines 82-91: what _get_access_token does with the endpoint's answer:    *)
(* "cache" stores and returns the token, "none" returns None, "raise"      *)
(* lets an exception leave the method.                                     *)
TokenResult(kind) ==
  CASE kind = "ok" -> "cache"
    [] kind = "empty" -> "cache"
    [] kind = "nokey" -> "none"
    [] kind = "err" -> "none"
    [] kind = "exc" -> "none"

(* line 123: the bearer token of the Authorization header *)
Bearer(token) == token

(* line 125: "receive_id": channel *)
ReceiveId(req) == req.channel

(* What line 70 saw: the seconds for which the cached token is still valid, *)
(* -1 when no usable token is cached or it expired before now              *)
ValidFor(tok, expiry, t) ==
  IF Truthy(tok) /\ expiry - t >= 0 THEN expiry - t ELSE -1

(* line 97: if not token *)
NoToken(tok) == ~Truthy(tok)

(* PostResult without the except clause *)
PostResult_Propagates(kind) ==
  CASE kind = "ok" -> "True"
    [] kind = "err" -> "False"
    [] kind = "exc" -> "raise"

(* PostResult without the test of the answer's code *)
PostResult_IgnoresCode(kind) ==
  CASE kind = "ok" -> "True"
    [] kind = "err" -> "True"
    [] kind = "exc" -> "False"

(* lines 121-138: what post_message returns for the endpoint's answer *)
PostResult(kind) ==
  CASE kind = "ok" -> "True"
    [] kind = "err" -> "False"
    [] kind = "exc" -> "False"

(* CacheAfterSend that drops the token when the delivery fails *)
CacheAfterSend_DropsOnFailure(kind, tok) == IF kind = "ok" THEN tok ELSE None

(* lines 131-138: self._access_token after the message endpoint's answer:  *)
(* post_message never assigns it                                           *)
CacheAfterSend(kind, tok) == tok

(* dict.get(k): None for an absent key; None and "" are both falsy and     *)
(* both differ from every command name, so an absent key reads as ""       *)
Get(d, k) == IF k \in DOMAIN d THEN d[k] ELSE ""

(* line 198 *)
ActionMatches(ev) == Get(ev, "action") = "send_feishu_menu"

(* Target without the fallback to the user field *)
Target_ChannelOnly(ev) == Get(ev, "channel")

(* line 199: event_data.get("channel") or event_data.get("user") *)
Target(ev) ==
  IF Get(ev, "channel") # "" THEN Get(ev, "channel") ELSE Get(ev, "user")

(* lines 181-184: the buttons of the main menu *)
MenuButtons ==
  << << [text |-> "media library", callback_data |-> "media", primary |-> TRUE],
        [text |-> "search", callback_data |-> "search"] >>,
     << [text |-> "settings", callback_data |-> "settings"] >> >>

(* line 185: the arguments _send_main_menu passes to post_message *)
MenuRequest(channel) ==
  [channel |-> channel, title |-> "MoviePilot", text |-> "menu",
   buttons |-> MenuButtons]

(* Button that takes the style from the presence of the flag, not its value *)
Button_StyleFromPresence(btn) ==
  [tag |-> "button", text |-> btn.text,
   type |-> IF "primary" \in DOMAIN btn THEN "primary" ELSE "default",
   value |-> btn.callback_data]

(* lines 111-116: one button of an action block *)
Button(btn) ==
  [tag |-> "button", text |-> btn.text,
   type |-> IF "primary" \in DOMAIN btn /\ btn.primary THEN "primary" ELSE "default",
   value |-> btn.callback_data]

(* lines 101-117: the interactive card *)
BuildCard(title, text, buttons) ==
  [header |-> title,
   elements |->
     << [tag |-> "div", content |-> IF text = "" THEN " " ELSE text] >> \o
     [i \in 1..Len(buttons) |->
        [tag |-> "action",
         actions |-> [j \in 1..Len(buttons[i]) |-> Button(buttons[i][j])]]]]

NoCard == BuildCard("", "", << >>)

-----------------------------------------------------------------------------
(* State *)

(* The transport with no send under way: phase, the outcomes of the        *)
(* attempts made so far, the retries left, and what the caller gets        *)
IdleSend == [phase |-> "idle", hist |-> << >>, left |-> 0, result |-> "none"]

(* A request on its way to an endpoint: the session it is sent on, whether *)
(* stop() had run when it was sent, the bearer token and the cache at that *)
(* moment, and the request's body; held is self._session and enabled the   *)
(* configuration's enabled flag at the moment it is sent.                  *)
NoReq ==
  [kind |-> "none", session |-> 0, stopped |-> FALSE,
   token |-> None, cache |-> None, receive_id |-> "",
   app_id |-> "", app_secret |-> "", content |-> NoCard,
   held |-> 0, enabled |-> TRUE]

(* A thread outside the plugin.  req is post_message's arguments; token,   *)
(* app_id and app_secret are the locals of _get_access_token and           *)
(* post_message; out is the last request the call sent; ret is what        *)
(* post_message returned.  chkSlack, inval, cfgch, tokResp and msgResp     *)
(* record the call's history: the seconds of validity the cached token had *)
(* left when line 70 looked (-1: nothing usable cached), whether another   *)
(* actor wrote the cache or changed the credentials during the call        *)
(* (updch: update_config changed them), and the endpoints' answers to this *)
(* call.                                                                   *)
(* op is the entry point of the call ("post": post_message called by the   *)
(* host, "cmd": handle_command), event the event handled, sends the number *)
(* of times the handler called post_message, hret how the handler ended    *)
(* and log the channel of its line-202 report ("" when nothing was logged); *)
(* enabled0 is the configuration's enabled flag when the call began        *)
IdleThread ==
  [pc |-> "idle", req |-> NoRequest,
   token |-> None, app_id |-> "", app_secret |-> "", ret |-> "none",
   out |-> NoReq,
   chkSlack |-> -1, inval |-> FALSE, cfgch |-> FALSE, updch |-> FALSE,
   tokResp |-> "none", msgResp |-> "none",
   op |-> "none", event |-> NoEvent, sends |-> 0, hret |-> "none", log |-> "",
   enabled0 |-> TRUE]

InCall(r) == r.pc \notin {"idle", "done"}

(* No call is at its return: a return is taken before any other step *)
Quiet == \A t \in Threads : th[t].pc # "done"

(* lines 29-35: __init__ *)
Init ==
  /\ plugin_config = DefaultConfig
  /\ session = 0
  /\ access_token = None
  /\ token_expiry = 0
  /\ now = 1
  /\ th = [t \in Threads |-> IdleThread]
  /\ lifecycle = "new"
  /\ pools = 0
  /\ issued = 0
  /\ issuedAt = 0
  /\ invalidAt = 0
  /\ events = 0
  /\ tp = IdleSend

(* lines 201-202: post_message has ended in thread record r.  Called from  *)
(* handle_command, its result is dropped (line 185), the report is logged  *)
(* and the handler returns; an exception would pass through the handler.   *)
Finish(r) ==
  IF r.op # "cmd" THEN r
  ELSE IF r.ret = "raise" THEN [r EXCEPT !.hret = "raised"]
  ELSE [r EXCEPT !.hret = "returned", !.log = Target(r.event)]

(* lines 96-98: the thread after _get_access_token has returned tok *)
AfterGetToken(r, tok) ==
  IF NoToken(tok)
    THEN Finish([r EXCEPT !.pc = "done", !.token = tok, !.ret = "False"])
    ELSE [r EXCEPT !.pc = "L120", !.token = tok]

(* The other threads after the cache was written under them *)
MarkInval(f, t) ==
  [u \in Threads |->
     IF u # t /\ InCall(f[u]) THEN [f[u] EXCEPT !.inval = TRUE] ELSE f[u]]

(* The threads after the credentials were changed under them *)
MarkCfg(f, changed) ==
  [u \in Threads |->
     IF changed /\ InCall(f[u]) THEN [f[u] EXCEPT !.cfgch = TRUE] ELSE f[u]]

(* The threads after update_config changed the credentials under them *)
MarkUpd(f, changed) ==
  [u \in Threads |->
     IF changed /\ InCall(f[u]) THEN [f[u] EXCEPT !.updch = TRUE] ELSE f[u]]

CredsOf(c) == <<c.feishu_app_id, c.feishu_app_secret>>

-----------------------------------------------------------------------------
(* _get_access_token and post_message, one step per access to shared state *)

(* lines 93-96 and 70: post_message is called on a free thread, calls      *)
(* _get_access_token, and that runs the cache check.  The arguments are    *)
(* drawn where they are first used, in PmSend.                             *)
CallPostMessage(t) ==
  /\ Quiet
  /\ th[t].pc = "idle"
  /\ \A u \in Threads : u < t => InCall(th[u])
  /\ events < MaxEvents
  /\ events' = events + 1
  /\ th' = [th EXCEPT ![t] =
       [IdleThread EXCEPT
          !.op = "post", !.enabled0 = plugin_config.enabled,
          !.chkSlack = ValidFor(access_token, token_expiry, now),
          !.pc = IF CacheValid(access_token, token_expiry, now) THEN "L71" ELSE "L73"]]
  /\ UNCHANGED <<tp, plugin_config, session, access_token, token_expiry, now,
                 lifecycle, pools, issued, issuedAt, invalidAt>>

(* lines 197-201, 185, 96 and 70: handle_command is called on a free       *)
(* thread with an event; for the menu command with a target it calls       *)
(* _send_main_menu, which calls post_message with the menu; otherwise it   *)
(* returns at once.                                                        *)
HandleCommand(t) ==
  /\ Quiet
  /\ th[t].pc = "idle"
  /\ \A u \in Threads : u < t => InCall(th[u])
  /\ events < MaxEvents
  /\ events' = events + 1
  /\ \E ev \in Events :
       th' = [th EXCEPT ![t] =
         IF ActionMatches(ev) /\ Target(ev) # ""
           THEN [IdleThread EXCEPT
                   !.op = "cmd", !.event = ev, !.sends = 1,
                   !.enabled0 = plugin_config.enabled,
                   !.req = MenuRequest(Target(ev)),
                   !.chkSlack = ValidFor(access_token, token_expiry, now),
                   !.pc = IF CacheValid(access_token, token_expiry, now)
                            THEN "L71" ELSE "L73"]
           ELSE [IdleThread EXCEPT
                   !.op = "cmd", !.event = ev, !.pc = "done",
                   !.enabled0 = plugin_config.enabled,
                   !.hret = "returned"]]
  /\ UNCHANGED <<tp, plugin_config, session, access_token, token_expiry, now,
                 lifecycle, pools, issued, issuedAt, invalidAt>>

(* line 71: return self._access_token *)
GtReturnCached(t) ==
  /\ Quiet
  /\ th[t].pc = "L71"
  /\ th' = [th EXCEPT ![t] = AfterGetToken(th[t], access_token)]
  /\ UNCHANGED <<tp, plugin_config, session, access_token, token_expiry, now,
                 lifecycle, pools, issued, issuedAt, invalidAt, events>>

(* line 73 *)
GtReadAppId(t) ==
  /\ Quiet
  /\ th[t].pc = "L73"
  /\ th' = [th EXCEPT ![t] = [th[t] EXCEPT !.pc = "L74",
                                !.app_id = plugin_config.feishu_app_id]]
  /\ UNCHANGED <<tp, plugin_config, session, access_token, token_expiry, now,
                 lifecycle, pools, issued, issuedAt, invalidAt, events>>

(* lines 74-77 *)
GtReadSecret(t) ==
  /\ Quiet
  /\ th[t].pc = "L74"
  /\ LET secret == plugin_config.feishu_app_secret
     IN th' = [th EXCEPT ![t] =
          IF CredsMissing(th[t].app_id, secret)
            THEN AfterGetToken([th[t] EXCEPT !.app_secret = secret], None)
            ELSE [th[t] EXCEPT !.pc = "L81", !.app_secret = secret]]
  /\ UNCHANGED <<tp, plugin_config, session, access_token, token_expiry, now,
                 lifecycle, pools, issued, issuedAt, invalidAt, events>>

(* lines 81-82: the request to the token endpoint is sent *)
GtPost(t) ==
  /\ Quiet
  /\ th[t].pc = "L81"
  /\ th' = [th EXCEPT ![t] = [th[t] EXCEPT
       !.pc = "L83", !.tokResp = "wait",
       !.out = [NoReq EXCEPT
          !.kind = "tok", !.session = PickSession(session),
          !.held = session, !.enabled = plugin_config.enabled,
          !.stopped = (lifecycle = "stopped"), !.cache = access_token,
          !.app_id = th[t].app_id, !.app_secret = th[t].app_secret]]]
  /\ UNCHANGED <<tp, plugin_config, session, access_token, token_expiry, now,
                 lifecycle, pools, issued, issuedAt, invalidAt, events>>

(* lines 82-91: the token endpoint's answer arrives and is handled *)
GtResponse(t) ==
  /\ Quiet
  /\ th[t].pc = "L83"
  /\ \E kind \in TokenResponses :
       LET r == [th[t] EXCEPT !.tokResp = kind]
           tok == IF kind = "ok" THEN issued + 1 ELSE EmptyStr
       IN CASE TokenResult(kind) = "cache" ->
                 /\ access_token' = tok
                 /\ token_expiry' = now + TokenTTL
                 /\ issued' = IF kind = "ok" THEN issued + 1 ELSE issued
                 /\ issuedAt' = now
                 /\ th' = MarkInval([th EXCEPT ![t] = AfterGetToken(r, tok)], t)
            [] TokenResult(kind) = "none" ->
                 /\ th' = [th EXCEPT ![t] = AfterGetToken(r, None)]
                 /\ UNCHANGED <<access_token, token_expiry, issued, issuedAt>>
            [] TokenResult(kind) = "raise" ->
                 /\ th' = [th EXCEPT ![t] =
                      Finish([r EXCEPT !.pc = "done", !.ret = "raise"])]
                 /\ UNCHANGED <<access_token, token_expiry, issued, issuedAt>>
  /\ UNCHANGED <<tp, plugin_config, session, now, lifecycle, pools, invalidAt, events>>

(* lines 100-138: the card is built, the message request is sent and the   *)
(* message endpoint's answer is handled                                    *)
PmSend(t) ==
  /\ Quiet
  /\ th[t].pc = "L120"
  /\ \E req \in (IF th[t].op = "cmd" THEN {th[t].req} ELSE Requests),
        kind \in MessageResponses :
       /\ th' = [th EXCEPT ![t] = Finish([th[t] EXCEPT
            !.pc = "done", !.req = req, !.msgResp = kind, !.ret = PostResult(kind),
            !.out = [NoReq EXCEPT
               !.kind = "msg", !.session = PickSession(session),
               !.held = session, !.enabled = plugin_config.enabled,
               !.stopped = (lifecycle = "stopped"), !.cache = access_token,
               !.token = Bearer(th[t].token), !.receive_id = ReceiveId(req),
               !.content = BuildCard(req.title, req.text, req.buttons)]])]
       /\ access_token' = CacheAfterSend(kind, access_token)
  /\ UNCHANGED <<tp, plugin_config, session, token_expiry, now,
                 lifecycle, pools, issued, issuedAt, invalidAt, events>>

(* the call has returned to the host *)
Return(t) ==
  /\ th[t].pc = "done"
  /\ th' = [th EXCEPT ![t] = IdleThread]
  /\ UNCHANGED <<tp, plugin_config, session, access_token, token_expiry, now,
                 lifecycle, pools, issued, issuedAt, invalidAt, events>>

-----------------------------------------------------------------------------
(* The host's lifecycle hooks and the clock *)

(* lines 42-52: init_plugin(config); line 48 opens the pooled session *)
InitPlugin(cfg) ==
  /\ Quiet
  /\ events < MaxEvents
  /\ events' = events + 1
  /\ LET new == DictUpdate(plugin_config, cfg)
         changed == CredsOf(new) # CredsOf(plugin_config)
         open == new.use_long_connection /\ session = 0
     IN /\ plugin_config' = new
        /\ session' = IF open THEN pools + 1 ELSE session
        /\ pools' = IF open THEN pools + 1 ELSE pools
        /\ invalidAt' = IF changed THEN issued ELSE invalidAt
        /\ th' = MarkCfg(th, changed)
  /\ lifecycle' = "running"
  /\ UNCHANGED <<tp, access_token, token_expiry, now, issued, issuedAt>>

(* lines 169-177: update_config(config) *)
UpdateConfig(cfg) ==
  /\ Quiet
  /\ events < MaxEvents
  /\ events' = events + 1
  /\ LET new == DictUpdate(plugin_config, cfg)
         changed == CredsOf(new) # CredsOf(plugin_config)
     IN /\ plugin_config' = new
        /\ invalidAt' = IF changed THEN issued ELSE invalidAt
        /\ th' = MarkUpd(MarkCfg(MarkInval(th, 0), changed), changed)
  /\ access_token' = None
  /\ token_expiry' = 0
  /\ issuedAt' = 0
  /\ UNCHANGED <<tp, session, now, lifecycle, pools, issued>>

(* lines 149-155: stop() *)
Stop ==
  /\ Quiet
  /\ events < MaxEvents
  /\ events' = events + 1
  /\ session' = 0
  /\ access_token' = None
  /\ lifecycle' = "stopped"
  /\ invalidAt' = issued
  /\ th' = MarkInval(th, 0)
  /\ UNCHANGED <<tp, plugin_config, token_expiry, now, pools, issued, issuedAt>>

(* time.time() advances *)
Tick ==
  /\ Quiet
  /\ events < MaxEvents
  /\ events' = events + 1
  /\ \E d \in TickSteps : now' = now + d
  /\ UNCHANGED <<tp, plugin_config, session, access_token, token_expiry, th,
                 lifecycle, pools, issued, issuedAt, invalidAt>>

Next ==
  \/ \E t \in Threads : CallPostMessage(t)
  \/ \E t \in Threads : GtReturnCached(t)
  \/ \E t \in Threads : GtReadAppId(t)
  \/ \E t \in Threads : GtReadSecret(t)
  \/ \E t \in Threads : GtPost(t)
  \/ \E t \in Threads : GtResponse(t)
  \/ \E t \in Threads : PmSend(t)
  \/ \E t \in Threads : Return(t)
  \/ \E cfg \in ConfigInputs : InitPlugin(cfg)
  \/ \E cfg \in ConfigInputs : UpdateConfig(cfg)
  \/ Stop
  \/ Tick

Spec == Init /\ [][Next]_vars

(* The command dispatcher: events and direct calls from the host, with the *)
(* enabled switch toggled through init_plugin and update_config            *)
NextCmd ==
  \/ \E t \in Threads : HandleCommand(t)
  \/ \E t \in Threads : CallPostMessage(t)
  \/ \E t \in Threads : GtReturnCached(t)
  \/ \E t \in Threads : GtReadAppId(t)
  \/ \E t \in Threads : GtReadSecret(t)
  \/ \E t \in Threads : GtPost(t)
  \/ \E t \in Threads : GtResponse(t)
  \/ \E t \in Threads : PmSend(t)
  \/ \E t \in Threads : Return(t)
  \/ \E cfg \in CmdConfigInputs : InitPlugin(cfg)
  \/ \E cfg \in CmdConfigInputs : UpdateConfig(cfg)

SpecCmd == Init /\ [][NextCmd]_vars

-----------------------------------------------------------------------------
(* One session.post (lines 82 and 121) through the transport, attempt by   *)
(* attempt                                                                 *)

(* session.post is called: the session is picked as at lines 81 and 120 *)
SessionPost ==
  /\ tp.phase = "idle"
  /\ events < MaxEvents
  /\ events' = events + 1
  /\ tp' = [phase |-> "sending", hist |-> << >>,
            left |-> RetriesOf(PickSession(session)), result |-> "none"]
  /\ UNCHANGED <<plugin_config, session, access_token, token_expiry, now, th,
                 lifecycle, pools, issued, issuedAt, invalidAt>>

(* One attempt ends in outcome o.  After a retryable outcome with retries  *)
(* left the policy may start another attempt (whether it does depends on   *)
(* the request: a POST that reached the server is not re-sent); otherwise  *)
(* the send ends with the response or the failure.                         *)
Attempt ==
  /\ tp.phase = "sending"
  /\ \E o \in Outcomes :
       \/ /\ Retryable(o) /\ tp.left > 0
          /\ tp' = [tp EXCEPT !.hist = Append(tp.hist, o), !.left = tp.left - 1]
       \/ tp' = [tp EXCEPT !.phase = "done", !.hist = Append(tp.hist, o),
                           !.result = SendResult(o)]
  /\ UNCHANGED <<plugin_config, session, access_token, token_expiry, now, th,
                 lifecycle, pools, issued, issuedAt, invalidAt, events>>

(* session.post has returned or raised *)
SendReturn ==
  /\ tp.phase = "done"
  /\ tp' = IdleSend
  /\ UNCHANGED <<plugin_config, session, access_token, token_expiry, now, th,
                 lifecycle, pools, issued, issuedAt, invalidAt, events>>

NextRetry ==
  \/ \E cfg \in RetryConfigInputs : InitPlugin(cfg)
  \/ Stop
  \/ SessionPost
  \/ Attempt
  \/ SendReturn

SpecRetry == Init /\ [][NextRetry]_vars

-----------------------------------------------------------------------------
(* Properties *)

(* _get_access_token has returned to post_message in thread t *)
Returned(t) == th[t].pc \in {"L120", "done"}

(* the call of thread t answered from the cache: no token request was sent *)
FromCache(t) == th[t].tokResp = "none"

(* C1: single-flight refresh: under every interleaving of concurrent calls *)
(* made while no valid token is cached, at most one request to the token   *)
(* endpoint is in flight at any time.                                      *)
C1_SingleFlight ==
  Cardinality({t \in Threads : th[t].pc = "L83"}) <= 1

(* C2: idempotent cache hit: a call that finds a token cached with         *)
(* now < expiry, and during which nobody invalidates or replaces the       *)
(* cache, gets that cached token and sends no request to the token         *)
(* endpoint.                                                               *)
C2_CacheHit ==
  \A t \in Threads :
    (Returned(t) /\ th[t].chkSlack > 0 /\ ~th[t].inval)
      => /\ th[t].token = access_token
         /\ Truthy(th[t].token)
         /\ FromCache(t)

C2_Witness ==
  \E t \in Threads :
    /\ th[t].pc = "done" /\ th[t].chkSlack > 0 /\ ~th[t].inval
    /\ th[t].token = access_token /\ Truthy(th[t].token) /\ FromCache(t)
    /\ issued = 1

(* C3: expiry correctness: a cached token expires 5400 seconds after it    *)
(* was issued; a call one second before the expiry gets the cached token   *)
(* without a token request, a call at the expiry (credentials configured)  *)
(* sends a new token request.                                              *)
C3_Expiry ==
  /\ Truthy(access_token) => token_expiry = issuedAt + 5400
  /\ \A t \in Threads :
       (Returned(t) /\ th[t].chkSlack = 1 /\ ~th[t].inval)
         => th[t].token = access_token /\ Truthy(th[t].token) /\ FromCache(t)
  /\ \A t \in Threads :
       (/\ Returned(t) /\ th[t].chkSlack = 0 /\ ~th[t].cfgch
        /\ plugin_config.feishu_app_id # ""
        /\ plugin_config.feishu_app_secret # "")
         => ~FromCache(t)

C3_Witness ==
  \E t \in Threads :
    /\ th[t].pc = "done" /\ th[t].chkSlack = 0 /\ th[t].tokResp = "ok"
    /\ issued = 2 /\ access_token = 2
    /\ token_expiry = issuedAt + 5400

(* the other boundary of C3: a call at T+V-1 answered from the cache *)
C3_WitnessBefore ==
  \E t \in Threads :
    /\ th[t].pc = "done" /\ th[t].chkSlack = 1 /\ FromCache(t)
    /\ th[t].token = access_token /\ now = issuedAt + 5399

(* C4: after an operation that changes the app id or the app secret, or    *)
(* after stop, a call never gets from the cache a token issued before that *)
(* operation.                                                              *)
C4_Invalidated ==
  \A t \in Threads :
    (/\ Returned(t) /\ FromCache(t) /\ Truthy(th[t].token)
     /\ ~th[t].inval /\ ~th[t].cfgch)
      => th[t].token > invalidAt

(* C5: post_message returns True or False, whatever the endpoints do; no   *)
(* exception leaves it.                                                    *)
C5_NeverRaises ==
  \A t \in Threads : th[t].pc = "done" => th[t].ret \in {"True", "False"}

C5_Witness ==
  \E t \in Threads :
    /\ th[t].pc = "done" /\ th[t].msgResp = "exc" /\ th[t].ret = "False"
    /\ th[t].tokResp = "ok"

(* C6: after stop no request is sent to either endpoint *)
C6_FailFast ==
  \A t \in Threads : ~th[t].out.stopped

(* C7: no message request carries a token that is not the cached token at  *)
(* the moment the request is sent (invalidated or replaced by another      *)
(* actor).                                                                 *)
C7_NoStaleSend ==
  \A t \in Threads :
    th[t].out.kind = "msg" => th[t].out.token = th[t].out.cache

(* C8: with the app id or the app secret empty and no valid token cached,  *)
(* _get_access_token returns None, post_message returns False and no       *)
(* request is sent to either endpoint.                                     *)
C8_NoCredentials ==
  \A t \in Threads :
    (/\ th[t].pc = "done" /\ th[t].chkSlack <= 0 /\ ~th[t].cfgch
     /\ (plugin_config.feishu_app_id = "" \/ plugin_config.feishu_app_secret = ""))
      => /\ th[t].token = None
         /\ th[t].ret = "False"
         /\ th[t].tokResp = "none" /\ th[t].msgResp = "none"
         /\ th[t].out = NoReq

C8_Witness ==
  \E t \in Threads :
    /\ th[t].pc = "done" /\ th[t].chkSlack <= 0 /\ ~th[t].cfgch
    /\ plugin_config.feishu_app_id # "" /\ plugin_config.feishu_app_secret = ""
    /\ th[t].token = None /\ th[t].ret = "False" /\ th[t].out = NoReq

(* C9: when the token endpoint answers with a non-zero code or the token   *)
(* request fails, _get_access_token returns None and leaves the cached     *)
(* token and its expiry as they were, and post_message returns False       *)
(* without a request to the message endpoint.                              *)
C9_Returned ==
  \A t \in Threads :
    (th[t].pc = "done" /\ th[t].tokResp \in {"err", "exc"})
      => /\ th[t].token = None
         /\ th[t].ret = "False"
         /\ th[t].msgResp = "none"
         /\ th[t].out.kind = "tok"

C9_CacheKept ==
  \A t \in Threads :
    (th[t].pc = "L83" /\ th'[t].tokResp \in {"err", "exc"})
      => UNCHANGED <<access_token, token_expiry>>

C9_AuthFailure == []C9_Returned /\ [][C9_CacheKept]_vars

C9_Witness ==
  \E t \in Threads :
    /\ th[t].pc = "done" /\ th[t].tokResp = "err" /\ th[t].ret = "False"
    /\ Truthy(access_token)

(* C10: post_message returns True exactly when a token was obtained and    *)
(* the message endpoint answered code 0; the message request carries the   *)
(* token _get_access_token returned to this call and the call's channel.   *)
C10_Deliver ==
  \A t \in Threads :
    th[t].pc = "done"
      => /\ th[t].ret = "True" <=> (Truthy(th[t].token) /\ th[t].msgResp = "ok")
         /\ th[t].out.kind = "msg"
              => /\ th[t].out.token = th[t].token
                 /\ th[t].out.receive_id = th[t].req.channel
         /\ th[t].msgResp # "none" <=> th[t].out.kind = "msg"

C10_Witness ==
  \E t \in Threads :
    /\ th[t].pc = "done" /\ th[t].ret = "True" /\ th[t].tokResp = "ok"
    /\ th[t].out.kind = "msg" /\ th[t].out.token = th[t].token
    /\ th[t].out.receive_id = "oc_2" /\ th[t].req.channel = "oc_2"

(* C11: a failed delivery (non-zero code or transport failure of the       *)
(* message endpoint) leaves the cached token and its expiry as they were,  *)
(* so the token the call used is still the cached one.                     *)
C11_Returned ==
  \A t \in Threads :
    (th[t].pc = "done" /\ th[t].msgResp \in {"err", "exc"} /\ ~th[t].inval)
      => /\ th[t].ret = "False"
         /\ access_token = th[t].out.cache
         /\ access_token = th[t].token

C11_CacheKept ==
  \A t \in Threads :
    (th[t].pc = "L120" /\ th'[t].msgResp \in {"err", "exc"})
      => UNCHANGED <<access_token, token_expiry>>

C11_DeliveryFailure == []C11_Returned /\ [][C11_CacheKept]_vars

C11_Witness ==
  \E t \in Threads :
    /\ th[t].pc = "done" /\ th[t].msgResp = "err" /\ th[t].ret = "False"
    /\ ~th[t].inval /\ Truthy(access_token) /\ access_token = th[t].token
    /\ CacheValid(access_token, token_expiry, now)

(* C16, as claimed: at most one pooled session is ever created *)
C16_OnePoolEver == pools <= 1

(* C16, amended: at most one pooled session is held at a time: a new one   *)
(* is created only while none is held, and every request sent while one is *)
(* held goes through it.                                                   *)
C16_Held ==
  /\ session \in {0, pools}
  /\ \A t \in Threads :
       (th[t].out.kind # "none" /\ th[t].out.held # 0)
         => th[t].out.session = th[t].out.held

C16_Created == pools' # pools => (session = 0 /\ session' = pools' /\ pools' = pools + 1)

C16_SinglePool == []C16_Held /\ [][C16_Created]_vars

C16_Witness ==
  /\ pools = 2 /\ session = 2
  /\ \E t \in Threads : th[t].out.kind = "tok" /\ th[t].out.session = 2

(* C17: when update_config changes the credentials while a token request   *)
(* is in flight, then once no refresh is in flight the cache holds no      *)
(* valid token that was requested with other credentials than the current  *)
(* ones.                                                                   *)
C17_NoStaleRefresh ==
  \A t \in Threads :
    (/\ Returned(t) /\ th[t].updch /\ th[t].tokResp = "ok"
     /\ th[t].token = access_token
     /\ CacheValid(access_token, token_expiry, now)
     /\ \A u \in Threads : th[u].pc # "L83")
      => <<th[t].app_id, th[t].app_secret>> = CredsOf(plugin_config)

(* C20: while the plugin is initialized and not stopped, a pooled session  *)
(* is held exactly when use_long_connection is on.                         *)
C20_SessionTracksOption ==
  lifecycle = "running" => (session # 0 <=> plugin_config.use_long_connection)

(* C14: the card of every message request has the title as header, one     *)
(* body block holding the body (a single space for an empty body), then    *)
(* one action block per button row in grid order, each with the row's      *)
(* buttons in order, styled "primary" iff the emphasis flag is true         *)
(* ("default" when false or absent), the callback value unchanged.         *)
C14_MessageBuilder ==
  \A t \in Threads :
    th[t].out.kind = "msg" =>
      LET c == th[t].out.content
          r == th[t].req
      IN  /\ c.header = r.title
          /\ Len(c.elements) = 1 + Len(r.buttons)
          /\ c.elements[1].tag = "div"
          /\ r.text # "" => c.elements[1].content = r.text
          /\ r.text = "" => c.elements[1].content = " "
          /\ \A i \in 1..Len(r.buttons) :
               LET blk == c.elements[i + 1]
                   row == r.buttons[i]
               IN  /\ blk.tag = "action"
                   /\ Len(blk.actions) = Len(row)
                   /\ \A j \in 1..Len(row) :
                        /\ blk.actions[j].tag = "button"
                        /\ blk.actions[j].text = row[j].text
                        /\ blk.actions[j].value = row[j].callback_data
                        /\ blk.actions[j].type \in {"primary", "default"}
                        /\ blk.actions[j].type = "primary"
                             <=> ("primary" \in DOMAIN row[j] /\ row[j].primary)

C14_Witness ==
  \E t \in Threads :
    /\ th[t].out.kind = "msg" /\ Len(th[t].req.buttons) = 2
    /\ Len(th[t].out.content.elements) = 3
    /\ th[t].out.content.elements[2].actions[1].type = "primary"
    /\ th[t].out.content.elements[2].actions[2].type = "default"
    /\ th[t].out.content.elements[3].actions[1].type = "default"
    /\ th[t].out.content.elements[3].actions[1].value = "settings"

(* the empty-body and the empty-grid cases of C14 *)
C14_WitnessEmptyBody ==
  \E t \in Threads :
    /\ th[t].out.kind = "msg" /\ th[t].req.text = ""
    /\ th[t].out.content.elements[1].content = " "

C14_WitnessNoButtons ==
  \E t \in Threads :
    /\ th[t].out.kind = "msg" /\ th[t].req.buttons = << >>
    /\ Len(th[t].out.content.elements) = 1

(* the handler of thread t has ended *)
Handled(t) == th[t].pc = "done" /\ th[t].op = "cmd"

(* C12: for an event with the menu command the target is the channel       *)
(* field, or the user field when channel is absent or empty; with a target *)
(* post_message is called exactly once, for that target and with the fixed *)
(* two-row menu; without a target, or for another action, it is not called *)
(* and no request is sent.                                                 *)
C12_Dispatch ==
  \A t \in Threads :
    Handled(t) =>
      LET ev == th[t].event
          hasChannel == "channel" \in DOMAIN ev /\ ev.channel # ""
          hasUser == "user" \in DOMAIN ev /\ ev.user # ""
          isMenu == "action" \in DOMAIN ev /\ ev.action = "send_feishu_menu"
      IN  /\ (isMenu /\ (hasChannel \/ hasUser)) =>
                /\ th[t].sends = 1
                /\ hasChannel => th[t].req.channel = ev.channel
                /\ ~hasChannel => th[t].req.channel = ev.user
                /\ Len(th[t].req.buttons) = 2
                /\ th[t].req.buttons = MenuButtons
                /\ th[t].out.kind = "msg" =>
                     /\ th[t].out.receive_id = th[t].req.channel
                     /\ Len(th[t].out.content.elements) = 3
          /\ ~(isMenu /\ (hasChannel \/ hasUser)) =>
                /\ th[t].sends = 0
                /\ th[t].out.kind = "none"
                /\ th[t].tokResp = "none" /\ th[t].msgResp = "none"

C12_Witness ==
  \E t \in Threads :
    /\ Handled(t) /\ "channel" \notin DOMAIN th[t].event
    /\ th[t].sends = 1 /\ th[t].out.kind = "msg"
    /\ th[t].out.receive_id = "u_2" /\ th[t].msgResp = "ok"

(* the cases of C12 in which nothing is sent *)
C12_WitnessNoTarget ==
  \E t \in Threads :
    /\ Handled(t) /\ th[t].event = [action |-> "send_feishu_menu"]
    /\ th[t].sends = 0

(* C13: whatever the token endpoint and the message endpoint answer, the   *)
(* handler returns normally and has called post_message at most once.      *)
C13_HandlerReturns ==
  \A t \in Threads :
    Handled(t) => (th[t].hret = "returned" /\ th[t].sends <= 1)

C13_Witness ==
  \E t \in Threads :
    /\ Handled(t) /\ th[t].msgResp = "exc" /\ th[t].sends = 1
    /\ th[t].hret = "returned" /\ th[t].ret = "False"

(* a handler whose token acquisition failed *)
C13_WitnessNoToken ==
  \E t \in Threads :
    /\ Handled(t) /\ th[t].tokResp = "exc" /\ th[t].sends = 1
    /\ th[t].hret = "returned" /\ th[t].ret = "False"

(* C18: the handler reports the menu as sent only when post_message        *)
(* returned True for the event.                                            *)
C18_ReportOnlyOnSuccess ==
  \A t \in Threads :
    (Handled(t) /\ th[t].log # "") => th[t].ret = "True"

(* C19: no request is sent to the token endpoint or the message endpoint   *)
(* while the enabled flag of the configuration is off: a call of           *)
(* handle_command or post_message that begins with the flag off, and finds *)
(* it off when it would send, sends nothing.                               *)
C19_NoRequestWhileDisabled ==
  \A t \in Threads :
    th[t].out.kind # "none" => (th[t].enabled0 \/ th[t].out.enabled)

(* C15: one send makes at most 1 + 3 attempts; an attempt is followed by   *)
(* another one only after a status of 500, 502, 503 or 504 or a connection *)
(* failure, never after a 4xx status; after the last attempt the send has  *)
(* ended with a response or a transport error.                             *)
C15_BoundedRetry ==
  /\ Len(tp.hist) <= 1 + 3
  /\ \A i \in 1..(Len(tp.hist) - 1) :
       /\ tp.hist[i] \in {0, 500, 502, 503, 504}
       /\ tp.hist[i] \notin 400..499
  /\ tp.phase = "sending" =>
       /\ Len(tp.hist) <= 3
       /\ \A i \in 1..Len(tp.hist) : tp.hist[i] \in {0, 500, 502, 503, 504}
  /\ tp.phase = "done" =>
       /\ Len(tp.hist) >= 1
       /\ tp.result \in {"response", "TransportError"}
       /\ tp.result = "TransportError" <=> tp.hist[Len(tp.hist)] = 0

C15_Witness ==
  /\ tp.phase = "done" /\ session # 0
  /\ tp.hist = <<503, 0, 500, 400>> /\ tp.result = "response"

(* a send on a one-shot session: a single attempt *)
C15_WitnessOneShot ==
  /\ tp.phase = "done" /\ session = 0 /\ tp.hist = <<0>>
  /\ tp.result = "TransportError"

====
